---- MODULE Spec2Model ----
(***************************************************************************)
(* Order execution engine: the order pipeline (OrderProcessor), the job    *)
(* queue that runs and retries it (OrderQueue, BullMQ), and the status     *)
(* delivery subsystem (WebSocketManager with its Redis update buffer).     *)
(*                                                                         *)
(* Granularity: one action per resumption of an async function, i.e. the   *)
(* synchronous code that runs between two awaits on the Node event loop.   *)
(* Redis commands issued through the shared redisClient take effect in the *)
(* order they are issued and are answered in that order (one connection),  *)
(* so a command's effect is applied when it is issued and its reply is a   *)
(* later step taken from the FIFO `pending`.                               *)
(***************************************************************************)
EXTENDS Integers, Sequences, FiniteSets, TLC

\* ------------------------------------------------------------------ bounds
MaxSockets == 2          \* client sockets there are
MaxClients == 1          \* clients that connect while an order is processed
MaxPublished == 3        \* updates a caller of sendStatusUpdate publishes
MaxOverflow == 2         \* updates published beyond MAX_BUFFERED_UPDATES
MaxBuffering == 1        \* bufferUpdate calls in flight at one time
MaxQuotes == 3           \* quotes in a list given to selectBestDex
MaxOutput == 5           \* estimatedOutput of a quote given to selectBestDex

\* ------------------------------------------------- program constants, sets
Orders  == {"o1", "o2"}
Submitted == {"o1"}     \* the order the engine is followed on
Sockets == 1..(MaxSockets + 1)
NoSocket == 0
Absent  == "absent"      \* undefined string
None    == {}            \* an optional field or nullable column without a value
Some(v) == {v}           \* ... and with the value v

MaxAttempts        == 3  \* defaultJobOptions.attempts
MaxBufferedUpdates == 50 \* MAX_BUFFERED_UPDATES
UpdateBufferTtl == 300   \* UPDATE_BUFFER_TTL, in seconds
BackoffDelay == 2000     \* backoff.delay, in milliseconds
Concurrency == 10        \* worker option concurrency

RaydiumFee == 30         \* 0.003, in 1/10000
MeteoraFee == 20         \* 0.002, in 1/10000
FeeScale   == 10000
\* getBasePrice returns 100 for an unlisted pair; prices are in 1/10.
\* Raydium draws base*(0.98 + r*0.04), Meteora base*(0.97 + r*0.05): a draw
\* where Raydium quotes the higher price and Meteora the higher output.
RaydiumPrices == {999}
MeteoraPrices == {998}
AmountIn   == 15         \* 1.5, in 1/10
SlippageBp == 100        \* 0.01, in 1/10000
RandDraws  == {0, 1}     \* Math.random() at the ends of its range
PriceScale == 100000     \* executed prices are in 1/(10*PriceScale)

\* messages of the errors a repository call may reject with
DbErrors == {"connection terminated", "deadlock detected"}
NotFoundError == "Order not found"

VARIABLES
    db,          \* orders table: order id -> persisted row, or NoRow
    dexQuotes,   \* dex_quotes table: order id -> sequence of persisted rows
    job,         \* BullMQ job per order id: state, attemptsMade, failedReason
    jobsAdded,   \* history: jobs the queue created under the order's id
    resubmitted, \* history: addOrderToQueue was called for an id that has a job
    pc,          \* processOrder run per order: the await it is suspended at
    mem,         \* processOrder: the in-memory `order` entity
    quotes,      \* processOrder: the local `quotes`
    err,         \* processOrder: the `error` caught by the catch block
    timers,      \* pending setTimeout(closeConnection, 2000) per order
    connections, \* WebSocketManager.connections: order id -> socket
    readyState,  \* socket.readyState
    handlers,    \* socket has the close/error handlers of registerConnection
    wpc,         \* the /status/:orderId handler of each socket: its await
    flushBuf,    \* sendBufferedUpdates: the `bufferedUpdates` it read
    routeOrder,  \* the status handler's `order.status` as findOne returned it
    closedBy,    \* history: who made the socket leave OPEN
    sent,        \* messages written to each socket, in order
    buffer,      \* Redis list order:<id>:updates
    ttl,         \* seconds until the Redis key expires; 0: no expiration
    pending,     \* redisClient: continuations awaiting a reply, FIFO
    published,   \* history: calls of wsManager.sendStatusUpdate per order
    call,        \* a direct call of a MockDexRouter method: arguments, result
    faulty       \* environment: the kinds of call that may fail

pipeVars == <<db, dexQuotes, job, pc, mem, quotes, err>>
sockVars == <<connections, readyState, handlers, wpc, flushBuf, routeOrder, closedBy>>
chanVars == <<sent, buffer, ttl, pending, published>>
queueVars == <<jobsAdded, resubmitted>>
vars == <<db, dexQuotes, job, jobsAdded, resubmitted, pc, mem, quotes, err, timers,
          connections, readyState, handlers, wpc, flushBuf, routeOrder, closedBy,
          sent, buffer, ttl, pending, published, call, faulty>>

\* ----------------------------------------------------------------- helpers
Range(s) == {s[i] : i \in 1..Len(s)}

\* the :orderId parameter of the socket's request: the last socket asks for
\* the second order, the others for the first
OrderOf(s) == IF s <= MaxSockets THEN "o1" ELSE "o2"

Terminal(st) == st \in {"CONFIRMED", "FAILED"}

\* OrderStatus, in pipeline order
StatusRank(st) ==
    CASE st = "PENDING"   -> 1
      [] st = "ROUTING"   -> 2
      [] st = "BUILDING"  -> 3
      [] st = "SUBMITTED" -> 4
      [] st = "CONFIRMED" -> 5
      [] st = "FAILED"    -> 6

\* The row created by POST /execute: status PENDING, retryCount default 0,
\* the nullable columns NULL.
NewOrder ==
    [status |-> "PENDING", selectedDex |-> None, executionPrice |-> None,
     txHash |-> None, errorMessage |-> None, retryCount |-> 0]

\* No row with this id / no entity loaded.
NoRow == [NewOrder EXCEPT !.status = "NONE"]

\* OrderStatusUpdate; an optional field that is not given is None.
Update(o, st, msg) ==
    [orderId |-> o, status |-> st, message |-> msg, quotes |-> None,
     selectedDex |-> None, txHash |-> None, executionPrice |-> None,
     error |-> None, retryCount |-> None]

\* MockDexRouter.getRaydiumQuote / getMeteorQuote
Quote(dex, price, fee) ==
    [dexName |-> dex, price |-> price, fee |-> fee,
     estimatedOutput |-> AmountIn * price * (FeeScale - fee)]

\* A reduce that takes the current quote when it is at least as good.
RECURSIVE Reduce_LastWins(_, _, _)
Reduce_LastWins(qs, i, best) ==
    IF i > Len(qs) THEN best
    ELSE Reduce_LastWins(qs, i + 1,
                         IF qs[i].estimatedOutput >= best.estimatedOutput
                         THEN qs[i] ELSE best)

\* MockDexRouter.selectBestDex: quotes.reduce keeping `best` unless the
\* current quote's estimatedOutput is strictly greater.
RECURSIVE Reduce(_, _, _)
Reduce(qs, i, best) ==
    IF i > Len(qs) THEN best
    ELSE Reduce(qs, i + 1,
                IF qs[i].estimatedOutput > best.estimatedOutput
                THEN qs[i] ELSE best)

selectBestDex(qs) == Reduce(qs, 2, qs[1])

\* A price impact of up to 125% of the allowed slippage.
ExecutedPriceAt_Overshoot(price, r, slip) ==
    price * PriceScale - (price * r * slip * 25) \div 2

\* MockDexRouter.executeSwap: quote.price * (1 - random * slippage * 0.8),
\* for a slippage of slip/10000
ExecutedPriceAt(price, r, slip) == price * PriceScale - price * r * slip * 8

\* ... for the slippage of the order followed
ExecutedPrice(price, r) == ExecutedPriceAt(price, r, SlippageBp)


\* No method of the router has been called directly.
NoCall == [fn |-> "none", args |-> <<>>, result |-> None]

\* ------------------------------------------------------------------- Init
\* Nothing exists yet: no order, no job, no socket, an empty Redis.
Start ==
    /\ db = [o \in Orders |-> NoRow]
    /\ dexQuotes = [o \in Orders |-> <<>>]
    /\ job = [o \in Orders |->
                [state |-> "none", attemptsMade |-> 0, failedReason |-> Absent,
                 delay |-> 0, waited |-> 0]]
    /\ jobsAdded = [o \in Orders |-> 0]
    /\ resubmitted = [o \in Orders |-> FALSE]
    /\ pc = [o \in Orders |-> "idle"]
    /\ mem = [o \in Orders |-> NoRow]
    /\ quotes = [o \in Orders |-> <<>>]
    /\ err = [o \in Orders |-> Absent]
    /\ timers = [o \in Orders |-> 0]
    /\ connections = [o \in Orders |-> NoSocket]
    /\ readyState = [s \in Sockets |-> "NONE"]
    /\ handlers = [s \in Sockets |-> FALSE]
    /\ flushBuf = [s \in Sockets |-> <<>>]
    /\ routeOrder = [s \in Sockets |-> Absent]
    /\ closedBy = [s \in Sockets |-> "none"]
    /\ sent = [s \in Sockets |-> <<>>]
    /\ buffer = [o \in Orders |-> <<>>]
    /\ ttl = [o \in Orders |-> 0]
    /\ pending = <<>>
    /\ published = [o \in Orders |-> <<>>]
    /\ call = NoCall

\* The environment may make any number of calls fail (a repository call,
\* a socket write).
\* The first n sockets belong to clients that will connect.
Clients(n) == wpc = [s \in Sockets |-> IF s <= n THEN "unborn" ELSE "absent"]

Init == Start /\ Clients(0) /\ faulty = {"db", "send"}

\* An environment call of this kind fails: "db" a repository call rejects,
\* "send" socket.send throws, "redis" a Redis command rejects, "hang" a
\* venue never answers, "quote" a venue's quote call rejects, "slip" a venue
\* executes outside the slippage bound.
Fault(kind) == kind \in faulty /\ UNCHANGED faulty

NoFault == UNCHANGED faulty

\* ------------------------------------------------ WebSocketManager: publish
\* bufferUpdate up to its first await: rpush is issued (and takes effect);
\* expire and ltrim follow when the replies arrive (RedisReply).
Buffering == {i \in 1..Len(pending) : pending[i].op \in {"rpush", "expire"}}

bufferUpdate(o, u) ==
    \/ /\ Cardinality(Buffering) < MaxBuffering
       /\ buffer' = [buffer EXCEPT ![o] = Append(@, u)]
       /\ pending' = Append(pending,
                            [op |-> "rpush", order |-> o, sock |-> NoSocket])
    \/ /\ "redis" \in faulty              \* rpush rejects: the catch logs
       /\ UNCHANGED <<buffer, pending>>

\* sendStatusUpdate whose catch block only logs the error of socket.send.
sendStatusUpdate_DropOnThrow(o, u, k) ==
    LET c == connections[o]
        open == c # NoSocket /\ readyState[c] = "OPEN"
    IN  /\ published' = [published EXCEPT ![o] =
                            Append(@, [attempt |-> k, update |-> u])]
        /\ \/ /\ open
              /\ sent' = [sent EXCEPT ![c] = Append(@, u)]
              /\ UNCHANGED <<buffer, pending>>
              /\ NoFault
           \/ /\ open                      \* send threw
              /\ Fault("send")
              /\ UNCHANGED <<buffer, pending, sent>>
           \/ /\ ~open
              /\ bufferUpdate(o, u)
              /\ UNCHANGED sent
              /\ NoFault
        /\ UNCHANGED ttl

\* sendStatusUpdate(orderId, update), called (not awaited) by the pipeline
\* for attempt k.  socket.send may throw; the update is then buffered.
sendStatusUpdate(o, u, k) ==
    LET c == connections[o]
        open == c # NoSocket /\ readyState[c] = "OPEN"
    IN  /\ published' = [published EXCEPT ![o] =
                            Append(@, [attempt |-> k, update |-> u])]
        /\ \/ /\ open
              /\ sent' = [sent EXCEPT ![c] = Append(@, u)]
              /\ UNCHANGED <<buffer, pending>>
              /\ NoFault
           \/ /\ open                      \* send threw
              /\ Fault("send")
              /\ bufferUpdate(o, u)
              /\ UNCHANGED sent
           \/ /\ ~open
              /\ bufferUpdate(o, u)
              /\ UNCHANGED sent
              /\ NoFault
        /\ UNCHANGED ttl

\* ------------------------------------------------------- OrderQueue / BullMQ
\* queue.add without a jobId: every call creates a job.
addOrderToQueue_NoJobId(o) ==
    /\ job' = [job EXCEPT ![o].state = IF @ = "none" THEN "waiting" ELSE @]
    /\ jobsAdded' = [jobsAdded EXCEPT ![o] = @ + 1]
    /\ resubmitted' = [resubmitted EXCEPT ![o] = @ \/ job[o].state # "none"]

\* addOrderToQueue(orderId): queue.add with jobId = orderId.  The queue
\* creates the job unless one with that id exists, in whatever state; then
\* the call changes nothing.
addOrderToQueue(o) ==
    IF job[o].state = "none"
    THEN /\ job' = [job EXCEPT ![o].state = "waiting"]
         /\ jobsAdded' = [jobsAdded EXCEPT ![o] = @ + 1]
         /\ UNCHANGED resubmitted
    ELSE /\ resubmitted' = [resubmitted EXCEPT ![o] = TRUE]
         /\ UNCHANGED <<job, jobsAdded>>

\* POST /execute: the order row is created and addOrderToQueue adds its job.
PostExecute(o) ==
    /\ db[o] = NoRow
    /\ db' = [db EXCEPT ![o] = NewOrder]
    /\ addOrderToQueue(o)
    /\ UNCHANGED <<dexQuotes, pc, mem, quotes, err, timers>>
    /\ UNCHANGED sockVars /\ UNCHANGED chanVars /\ NoFault
    /\ UNCHANGED call

\* The order is submitted to the queue again (the status route of the
\* earlier revision enqueues the order each time a client connects).
Resubmit(o) ==
    /\ db[o] # NoRow
    /\ addOrderToQueue(o)
    /\ UNCHANGED <<db, dexQuotes, pc, mem, quotes, err, timers>>
    /\ UNCHANGED sockVars /\ UNCHANGED chanVars /\ NoFault
    /\ UNCHANGED call

\* The worker takes the job (first run, or a retry whose backoff elapsed)
\* while fewer than `concurrency` jobs are active, and calls
\* processOrder(orderId, job.attemptsMade), which awaits findOne.
JobStart(o) ==
    /\ \/ job[o].state = "waiting"
       \/ job[o].state = "delayed" /\ job[o].delay = 0
    /\ pc[o] = "idle"
    /\ Cardinality({p \in Orders : job[p].state = "active"}) < Concurrency
    /\ job' = [job EXCEPT ![o].state = "active"]
    /\ pc' = [pc EXCEPT ![o] = "findOne"]
    /\ UNCHANGED <<db, dexQuotes, mem, quotes, err, timers>>
    /\ UNCHANGED sockVars /\ UNCHANGED chanVars /\ NoFault
    /\ UNCHANGED queueVars /\ UNCHANGED call

\* backoff { type: "exponential", delay }: the delay before the retry that
\* follows the attemptsMade-th failure, in periods of BackoffDelay
\* milliseconds: 2^(attemptsMade - 1).
Backoff_Fixed(attemptsMade) == 1

Backoff(attemptsMade) == 2 ^ (attemptsMade - 1)

\* The processor threw: the attempt counts, and the job is retried after
\* its backoff while attempts remain.  `delay` is what is left of the
\* backoff and `waited` the time since the failure, in periods.
JobFailed(o, reason) ==
    LET made == job[o].attemptsMade + 1
    IN  job' = [job EXCEPT ![o] =
                  [state |-> IF made < MaxAttempts THEN "delayed" ELSE "failed",
                   attemptsMade |-> made, failedReason |-> reason,
                   delay |-> IF made < MaxAttempts THEN Backoff(made) ELSE 0,
                   waited |-> 0]]

\* One period of BackoffDelay milliseconds passes for a delayed job.
BackoffTick(o) ==
    /\ job[o].state = "delayed"
    /\ job[o].delay > 0
    /\ job' = [job EXCEPT ![o].delay = @ - 1, ![o].waited = @ + 1]
    /\ UNCHANGED <<db, dexQuotes, pc, mem, quotes, err, timers>>
    /\ UNCHANGED sockVars /\ UNCHANGED chanVars /\ NoFault
    /\ UNCHANGED queueVars /\ UNCHANGED call

\* A worker that puts a job whose processor returned back on the queue.
JobCompleted_Requeued(o) ==
    job' = [job EXCEPT ![o].state = "waiting",
                       ![o].attemptsMade = @ + 1]

\* The processor returned: the job is completed and is not run again.
JobCompleted(o) ==
    job' = [job EXCEPT ![o].state = "completed",
                       ![o].attemptsMade = @ + 1]

\* processOrder has returned or thrown: its locals are gone.
RunEnds(o) ==
    /\ pc' = [pc EXCEPT ![o] = "idle"]
    /\ mem' = [mem EXCEPT ![o] = NoRow]
    /\ quotes' = [quotes EXCEPT ![o] = <<>>]
    /\ err' = [err EXCEPT ![o] = Absent]


\* ------------------------------------------------ OrderProcessor.processOrder
Attempt(o) == job[o].attemptsMade

NoChannel == UNCHANGED chanVars /\ NoFault

\* A save that writes every column but the status.
Saved_StatusNotWritten(o) ==
    db' = [db EXCEPT ![o] = [mem[o] EXCEPT !.status = db[o].status]]

\* repository.save(order) resolved: the row now equals the entity.
Saved(o) == db' = [db EXCEPT ![o] = mem[o]]

\* The catch block up to its await: the entity is marked FAILED with the
\* error's message and saved; `m` is the caught error.
Catch(o, m) ==
    /\ mem' = [mem EXCEPT ![o].status = "FAILED", ![o].errorMessage = Some(m)]
    /\ err' = [err EXCEPT ![o] = m]
    /\ pc' = [pc EXCEPT ![o] = "saveFailed"]

\* processOrder whose try block also fails when a socket write or a Redis
\* command does.
Throws_OnPublishFailure(o) ==
    /\ \E m \in DbErrors : Catch(o, m)
    /\ Fault("db") \/ Fault("send") \/ Fault("redis")
    /\ UNCHANGED <<db, dexQuotes, job, quotes, timers>>
    /\ UNCHANGED chanVars

\* An awaited repository call of the try block rejected: the catch block
\* runs with its error; nothing else changes.
Throws(o) ==
    /\ \E m \in DbErrors : Catch(o, m)
    /\ Fault("db")
    /\ UNCHANGED <<db, dexQuotes, job, quotes, timers>>
    /\ UNCHANGED chanVars

\* processOrder whose lookup is inside the try block: a missing order is
\* handled by the catch block like any other error.
FindOneDone_InsideTry(o) ==
    /\ pc[o] = "findOne"
    /\ \/ /\ IF db[o] = NoRow
             THEN /\ Catch(o, NotFoundError)
                  /\ UNCHANGED <<job, quotes>>
             ELSE /\ mem' = [mem EXCEPT ![o] =
                                [db[o] EXCEPT !.retryCount = Attempt(o)]]
                  /\ pc' = [pc EXCEPT ![o] = "saveRetry"]
                  /\ UNCHANGED <<job, quotes, err>>
          /\ NoFault
       \/ /\ Fault("db")
          /\ \E m \in DbErrors : JobFailed(o, m)
          /\ RunEnds(o)
    /\ UNCHANGED <<db, dexQuotes, timers>>
    /\ UNCHANGED sockVars /\ UNCHANGED chanVars
    /\ UNCHANGED queueVars /\ UNCHANGED call

\* findOne resolved or rejected.  A missing order, like a rejection, throws
\* before the try block: processOrder ends without reaching the catch.
FindOneDone(o) ==
    /\ pc[o] = "findOne"
    /\ \/ /\ IF db[o] = NoRow
             THEN /\ JobFailed(o, NotFoundError)
                  /\ RunEnds(o)
             ELSE /\ mem' = [mem EXCEPT ![o] =
                                [db[o] EXCEPT !.retryCount = Attempt(o)]]
                  /\ pc' = [pc EXCEPT ![o] = "saveRetry"]
                  /\ UNCHANGED <<job, quotes, err>>
          /\ NoFault
       \/ /\ Fault("db")
          /\ \E m \in DbErrors : JobFailed(o, m)
          /\ RunEnds(o)
    /\ UNCHANGED <<db, dexQuotes, timers>>
    /\ UNCHANGED sockVars /\ UNCHANGED chanVars
    /\ UNCHANGED queueVars /\ UNCHANGED call

\* save of the retry count resolved; updateOrderStatus(PENDING) starts.
SaveRetryDone(o) ==
    /\ pc[o] = "saveRetry"
    /\ \/ /\ Saved(o)
          /\ mem' = [mem EXCEPT ![o].status = "PENDING"]
          /\ pc' = [pc EXCEPT ![o] = "savePending"]
          /\ UNCHANGED <<dexQuotes, job, quotes, err, timers>>
          /\ NoChannel
       \/ Throws(o)
    /\ UNCHANGED sockVars
    /\ UNCHANGED queueVars /\ UNCHANGED call

\* PENDING saved: its update is sent, updateOrderStatus(ROUTING) starts.
SavePendingDone(o) ==
    /\ pc[o] = "savePending"
    /\ \/ /\ Saved(o)
          /\ sendStatusUpdate(o, Update(o, "PENDING", "Order received and queued"),
                              Attempt(o))
          /\ mem' = [mem EXCEPT ![o].status = "ROUTING"]
          /\ pc' = [pc EXCEPT ![o] = "saveRouting"]
          /\ UNCHANGED <<dexQuotes, job, quotes, err, timers>>
       \/ Throws(o)
    /\ UNCHANGED sockVars
    /\ UNCHANGED queueVars /\ UNCHANGED call

\* ROUTING saved: its update is sent, getAllQuotes is awaited.
SaveRoutingDone(o) ==
    /\ pc[o] = "saveRouting"
    /\ \/ /\ Saved(o)
          /\ sendStatusUpdate(o, Update(o, "ROUTING", "Comparing DEX prices"),
                              Attempt(o))
          /\ pc' = [pc EXCEPT ![o] = "quotes"]
          /\ UNCHANGED <<dexQuotes, job, mem, quotes, err, timers>>
       \/ Throws(o)
    /\ UNCHANGED sockVars
    /\ UNCHANGED queueVars /\ UNCHANGED call

\* getAllQuotes resolved with the Raydium and the Meteora quote (the mock
\* venues never reject); the first quote row is saved.
QuotesDone(o) ==
    /\ pc[o] = "quotes"
    /\ \E pr \in RaydiumPrices, pm \in MeteoraPrices :
          quotes' = [quotes EXCEPT ![o] =
                        <<Quote("RAYDIUM", pr, RaydiumFee),
                          Quote("METEORA", pm, MeteoraFee)>>]
    /\ pc' = [pc EXCEPT ![o] = "saveQuote1"]
    /\ UNCHANGED <<db, dexQuotes, job, mem, err, timers>>
    /\ UNCHANGED sockVars /\ NoChannel
    /\ UNCHANGED queueVars /\ UNCHANGED call

\* The i-th quote row is saved; after the last one selectBestDex picks the
\* venue and the order is saved with it.
SaveQuoteDone(o, i) ==
    /\ pc[o] = (IF i = 1 THEN "saveQuote1" ELSE "saveQuote2")
    /\ \/ /\ dexQuotes' = [dexQuotes EXCEPT ![o] = Append(@, quotes[o][i])]
          /\ IF i < Len(quotes[o])
             THEN /\ pc' = [pc EXCEPT ![o] = "saveQuote2"]
                  /\ UNCHANGED mem
             ELSE /\ mem' = [mem EXCEPT ![o].selectedDex =
                                Some(selectBestDex(quotes[o]).dexName)]
                  /\ pc' = [pc EXCEPT ![o] = "saveSelected"]
          /\ UNCHANGED <<db, job, quotes, err, timers>>
          /\ NoChannel
       \/ Throws(o)
    /\ UNCHANGED sockVars
    /\ UNCHANGED queueVars /\ UNCHANGED call

\* Selection saved: the routing result is sent, updateOrderStatus(BUILDING).
SaveSelectedDone(o) ==
    /\ pc[o] = "saveSelected"
    /\ \/ /\ Saved(o)
          /\ sendStatusUpdate(o,
                [Update(o, "ROUTING", "DEX routing completed") EXCEPT
                    !.quotes = Some(quotes[o]),
                    !.selectedDex = Some(selectBestDex(quotes[o]).dexName)],
                Attempt(o))
          /\ mem' = [mem EXCEPT ![o].status = "BUILDING"]
          /\ pc' = [pc EXCEPT ![o] = "saveBuilding"]
          /\ UNCHANGED <<dexQuotes, job, quotes, err, timers>>
       \/ Throws(o)
    /\ UNCHANGED sockVars
    /\ UNCHANGED queueVars /\ UNCHANGED call

\* BUILDING saved: its update is sent, sleep(500) is awaited.
SaveBuildingDone(o) ==
    /\ pc[o] = "saveBuilding"
    /\ \/ /\ Saved(o)
          /\ sendStatusUpdate(o, Update(o, "BUILDING", "Creating transaction"),
                              Attempt(o))
          /\ pc' = [pc EXCEPT ![o] = "sleep"]
          /\ UNCHANGED <<dexQuotes, job, mem, quotes, err, timers>>
       \/ Throws(o)
    /\ UNCHANGED sockVars
    /\ UNCHANGED queueVars /\ UNCHANGED call

\* sleep(500) resolved: updateOrderStatus(SUBMITTED) starts.
SleepDone(o) ==
    /\ pc[o] = "sleep"
    /\ mem' = [mem EXCEPT ![o].status = "SUBMITTED"]
    /\ pc' = [pc EXCEPT ![o] = "saveSubmitted"]
    /\ UNCHANGED <<db, dexQuotes, job, quotes, err, timers>>
    /\ UNCHANGED sockVars /\ NoChannel
    /\ UNCHANGED queueVars /\ UNCHANGED call

\* SUBMITTED saved: its update is sent, executeSwap is awaited.
SaveSubmittedDone(o) ==
    /\ pc[o] = "saveSubmitted"
    /\ \/ /\ Saved(o)
          /\ sendStatusUpdate(o, Update(o, "SUBMITTED", "Transaction sent to network"),
                              Attempt(o))
          /\ pc' = [pc EXCEPT ![o] = "swap"]
          /\ UNCHANGED <<dexQuotes, job, mem, quotes, err, timers>>
       \/ Throws(o)
    /\ UNCHANGED sockVars
    /\ UNCHANGED queueVars /\ UNCHANGED call

\* executeSwap resolved with a hash and an executed price (the mock venue
\* never rejects); the entity becomes CONFIRMED with both.
SwapDone(o) ==
    /\ pc[o] = "swap"
    /\ \E r \in RandDraws :
          mem' = [mem EXCEPT
              ![o].status = "CONFIRMED",
              ![o].txHash = Some(<<"mock-tx", Attempt(o)>>),
              ![o].executionPrice =
                  Some(ExecutedPrice(selectBestDex(quotes[o]).price, r))]
    /\ pc' = [pc EXCEPT ![o] = "saveConfirmed"]
    /\ UNCHANGED <<db, dexQuotes, job, quotes, err, timers>>
    /\ UNCHANGED sockVars /\ NoChannel
    /\ UNCHANGED queueVars /\ UNCHANGED call

\* CONFIRMED saved: the final update is sent, the connection release is
\* scheduled, processOrder returns and the job completes.
SaveConfirmedDone(o) ==
    /\ pc[o] = "saveConfirmed"
    /\ \/ /\ Saved(o)
          /\ sendStatusUpdate(o,
                [Update(o, "CONFIRMED", "Transaction confirmed successfully") EXCEPT
                    !.txHash = mem[o].txHash,
                    !.executionPrice = mem[o].executionPrice,
                    !.selectedDex = Some(selectBestDex(quotes[o]).dexName)],
                Attempt(o))
          /\ timers' = [timers EXCEPT ![o] = @ + 1]
          /\ JobCompleted(o)
          /\ RunEnds(o)
          /\ UNCHANGED dexQuotes
       \/ Throws(o)
    /\ UNCHANGED sockVars
    /\ UNCHANGED queueVars /\ UNCHANGED call

\* The catch block spreading the loaded entity's routing choice into the
\* FAILED update.
SaveFailedDone_WithSelectedDex(o) ==
    /\ pc[o] = "saveFailed"
    /\ \/ /\ Saved(o)
          /\ sendStatusUpdate(o,
                [Update(o, "FAILED", "Order execution failed") EXCEPT
                    !.error = mem[o].errorMessage,
                    !.retryCount = Some(mem[o].retryCount),
                    !.selectedDex = mem[o].selectedDex],
                Attempt(o))
          /\ timers' = [timers EXCEPT ![o] = @ + 1]
          /\ JobFailed(o, err[o])
       \/ /\ Fault("db")
          /\ \E m \in DbErrors : JobFailed(o, m)
          /\ UNCHANGED <<db, timers>>
          /\ UNCHANGED chanVars
    /\ RunEnds(o)
    /\ UNCHANGED dexQuotes
    /\ UNCHANGED sockVars
    /\ UNCHANGED queueVars /\ UNCHANGED call

\* The catch block's save resolved: the FAILED update is sent, the release
\* is scheduled and the caught error is re-thrown to the worker.  If the
\* save itself rejects, that rejection leaves processOrder instead.
SaveFailedDone(o) ==
    /\ pc[o] = "saveFailed"
    /\ \/ /\ Saved(o)
          /\ sendStatusUpdate(o,
                [Update(o, "FAILED", "Order execution failed") EXCEPT
                    !.error = mem[o].errorMessage,
                    !.retryCount = Some(mem[o].retryCount)],
                Attempt(o))
          /\ timers' = [timers EXCEPT ![o] = @ + 1]
          /\ JobFailed(o, err[o])
       \/ /\ Fault("db")
          /\ \E m \in DbErrors : JobFailed(o, m)
          /\ UNCHANGED <<db, timers>>
          /\ UNCHANGED chanVars
    /\ RunEnds(o)
    /\ UNCHANGED dexQuotes
    /\ UNCHANGED sockVars
    /\ UNCHANGED queueVars /\ UNCHANGED call


\* ------------------------------------------- routes/orders.ts: /status/:orderId
InitialMessage == "Connected to order status updates. Order is already processing."

\* socket.send from the route handler: written only to an open socket.
RouteSend(s, m) == IF readyState[s] = "OPEN" THEN Append(sent[s], m) ELSE sent[s]

\* SubSeq of the first n entries
Take(q, n) == SubSeq(q, 1, n)

\* socket.close() by the server, or the socket leaving OPEN for another
\* cause: an open socket goes to `to`; one that already left OPEN stays.
Leave(s, to, who) ==
    /\ readyState' = [readyState EXCEPT ![s] = IF @ = "OPEN" THEN to ELSE @]
    /\ closedBy' = [closedBy EXCEPT ![s] =
                      IF readyState[s] = "OPEN" THEN who ELSE @]

Close(s, who) == Leave(s, "CLOSING", who)

\* A client opens the status socket; the handler awaits findOne.
WsConnect(s) ==
    /\ wpc[s] = "unborn"
    /\ readyState' = [readyState EXCEPT ![s] = "OPEN"]
    /\ wpc' = [wpc EXCEPT ![s] = "findOne"]
    /\ UNCHANGED <<connections, handlers, flushBuf, routeOrder, closedBy>>
    /\ UNCHANGED pipeVars /\ UNCHANGED timers /\ UNCHANGED chanVars /\ NoFault
    /\ UNCHANGED queueVars /\ UNCHANGED call

\* findOne resolved.  Unknown order: an error is sent and the socket closed.
\* Otherwise registerConnection runs up to the await of lrange: the socket
\* is registered and sendBufferedUpdates reads the buffered log.
WsFindOneDone(s) ==
    LET o == OrderOf(s)
    IN  /\ wpc[s] = "findOne"
        /\ IF db[o] = NoRow
           THEN /\ sent' = [sent EXCEPT ![s] =
                              RouteSend(s, [Update(o, "NONE", "Order not found") EXCEPT
                                              !.error = Some("Order not found")])]
                /\ Close(s, "server")
                /\ wpc' = [wpc EXCEPT ![s] = "rejected"]
                /\ UNCHANGED <<connections, flushBuf, routeOrder, pending>>
           ELSE /\ routeOrder' = [routeOrder EXCEPT ![s] = db[o].status]
                /\ connections' = [connections EXCEPT ![o] = s]
                /\ flushBuf' = [flushBuf EXCEPT ![s] = buffer[o]]
                /\ pending' = Append(pending,
                                     [op |-> "lrange", order |-> o, sock |-> s])
                /\ wpc' = [wpc EXCEPT ![s] = "lrange"]
                /\ UNCHANGED <<sent, readyState, closedBy>>
        /\ UNCHANGED <<handlers, buffer, ttl, published, faulty>>
        /\ UNCHANGED pipeVars /\ UNCHANGED timers
        /\ UNCHANGED queueVars /\ UNCHANGED call

\* registerConnection after sendBufferedUpdates returned: the close and
\* error handlers are installed; then the route sends the initial status.
Registered(s, sentSoFar) ==
    /\ handlers' = [handlers EXCEPT ![s] = TRUE]
    /\ sent' = [sent EXCEPT ![s] =
                  IF readyState[s] = "OPEN"
                  THEN Append(sentSoFar,
                              Update(OrderOf(s), routeOrder[s], InitialMessage))
                  ELSE sentSoFar]
    /\ wpc' = [wpc EXCEPT ![s] = "attached"]
    /\ flushBuf' = [flushBuf EXCEPT ![s] = <<>>]

\* A flush that writes the entries it read and leaves the log as it is.
LrangeReply_NoDel(s) ==
    /\ Registered(s, IF readyState[s] = "OPEN"
                     THEN sent[s] \o flushBuf[s] ELSE sent[s])
    /\ pending' = Tail(pending)
    /\ UNCHANGED <<buffer, ttl, faulty>>

\* The reply of lrange: every entry read is written to the socket if it is
\* open, then del is issued.  A throwing send leaves through the catch
\* block without del.  An empty log needs neither.
LrangeReply(s) ==
    LET o == OrderOf(s)
        read == flushBuf[s]
    IN  \/ /\ read = <<>> \/ "redis" \in faulty   \* ... or lrange rejects
           /\ Registered(s, sent[s])
           /\ pending' = Tail(pending)
           /\ UNCHANGED <<buffer, ttl, faulty>>
        \/ /\ read # <<>>
           /\ sent' = [sent EXCEPT ![s] =
                         IF readyState[s] = "OPEN" THEN @ \o read ELSE @]
           /\ \/ /\ buffer' = [buffer EXCEPT ![o] = <<>>]
                 /\ ttl' = [ttl EXCEPT ![o] = 0]
              \/ /\ "redis" \in faulty    \* del rejects: the catch logs
                 /\ UNCHANGED <<buffer, ttl>>
           /\ pending' = Append(Tail(pending),
                                [op |-> "del", order |-> o, sock |-> s])
           /\ wpc' = [wpc EXCEPT ![s] = "del"]
           /\ UNCHANGED <<handlers, flushBuf, faulty>>
        \/ /\ read # <<>>
           /\ readyState[s] = "OPEN"
           /\ Fault("send")
           /\ \E n \in 0..(Len(read) - 1) :      \* the (n+1)-th send threw
                Registered(s, sent[s] \o Take(read, n))
           /\ pending' = Tail(pending)
           /\ UNCHANGED <<buffer, ttl>>

\* The reply of del: sendBufferedUpdates returns.
DelReply(s) ==
    /\ Registered(s, sent[s])
    /\ pending' = Tail(pending)
    /\ UNCHANGED <<buffer, ttl, faulty>>

\* bufferUpdate after rpush: expire is issued.  EXPIRE sets the timeout of
\* a key that exists and does nothing for a key that does not.
RpushReply(o) ==
    /\ \/ /\ ttl' = [ttl EXCEPT ![o] =
                        IF buffer[o] # <<>> THEN UpdateBufferTtl ELSE 0]
          /\ pending' = Append(Tail(pending),
                               [op |-> "expire", order |-> o, sock |-> NoSocket])
       \/ /\ "redis" \in faulty           \* expire rejects: the catch logs
          /\ pending' = Tail(pending)
          /\ UNCHANGED ttl
    /\ UNCHANGED <<buffer, sent, handlers, wpc, flushBuf, faulty>>

\* A trim that keeps the head of the list: ltrim key 0 MAX_BUFFERED_UPDATES-1
Ltrim_KeepOldest(q) ==
    IF Len(q) > MaxBufferedUpdates THEN SubSeq(q, 1, MaxBufferedUpdates) ELSE q

\* ltrim key -MAX_BUFFERED_UPDATES -1
Ltrim(q) ==
    IF Len(q) > MaxBufferedUpdates
    THEN SubSeq(q, Len(q) - MaxBufferedUpdates + 1, Len(q))
    ELSE q

\* bufferUpdate after expire: ltrim is issued; its reply only logs.
ExpireReply(o) ==
    /\ \/ buffer' = [buffer EXCEPT ![o] = Ltrim(@)]
       \/ /\ "redis" \in faulty           \* ltrim rejects: the catch logs
          /\ UNCHANGED buffer
    /\ pending' = Tail(pending)
    /\ UNCHANGED <<ttl, sent, handlers, wpc, flushBuf, faulty>>

\* The oldest outstanding Redis command is answered and the function that
\* awaits it resumes.
RedisReply ==
    /\ pending # <<>>
    /\ LET h == Head(pending)
       IN  CASE h.op = "rpush"  -> RpushReply(h.order)
             [] h.op = "expire" -> ExpireReply(h.order)
             [] h.op = "lrange" -> LrangeReply(h.sock)
             [] h.op = "del"    -> DelReply(h.sock)
    /\ UNCHANGED <<connections, readyState, routeOrder, closedBy, published>>
    /\ UNCHANGED pipeVars /\ UNCHANGED timers
    /\ UNCHANGED queueVars /\ UNCHANGED call

\* The 'close' / 'error' handler installed by registerConnection.
OnCloseOrError(s) ==
    connections' = IF handlers[s]
                   THEN [connections EXCEPT ![OrderOf(s)] = NoSocket]
                   ELSE connections

\* The client goes away: the socket is closed and 'close' is emitted.
ClientClose(s) ==
    /\ readyState[s] = "OPEN"
    /\ Leave(s, "CLOSED", "client")
    /\ OnCloseOrError(s)
    /\ UNCHANGED <<handlers, wpc, flushBuf, routeOrder>>
    /\ UNCHANGED pipeVars /\ UNCHANGED timers /\ UNCHANGED chanVars /\ NoFault
    /\ UNCHANGED queueVars /\ UNCHANGED call

\* A socket closed by the server finishes closing: 'close' is emitted.
SocketClosed(s) ==
    /\ readyState[s] = "CLOSING"
    /\ readyState' = [readyState EXCEPT ![s] = "CLOSED"]
    /\ OnCloseOrError(s)
    /\ UNCHANGED <<handlers, wpc, flushBuf, routeOrder, closedBy>>
    /\ UNCHANGED pipeVars /\ UNCHANGED timers /\ UNCHANGED chanVars /\ NoFault
    /\ UNCHANGED queueVars /\ UNCHANGED call

\* The socket fails: 'error' is emitted and the socket starts closing.
SocketError(s) ==
    /\ readyState[s] = "OPEN"
    /\ Close(s, "error")
    /\ OnCloseOrError(s)
    /\ UNCHANGED <<handlers, wpc, flushBuf, routeOrder>>
    /\ UNCHANGED pipeVars /\ UNCHANGED timers /\ UNCHANGED chanVars /\ NoFault
    /\ UNCHANGED queueVars /\ UNCHANGED call

\* closeConnection that empties the registry (connections.clear()).
closeConnection_ClearAll(o) ==
    LET c == connections[o]
    IN  IF c # NoSocket
        THEN /\ Close(c, "server")
             /\ connections' = [p \in Orders |-> NoSocket]
        ELSE UNCHANGED <<readyState, closedBy, connections>>

\* closeConnection(orderId), run by a timer 2000 ms after a terminal update.
closeConnection(o) ==
    LET c == connections[o]
    IN  IF c # NoSocket
        THEN /\ Close(c, "server")
             /\ connections' = [connections EXCEPT ![o] = NoSocket]
        ELSE UNCHANGED <<readyState, closedBy, connections>>

TimerFires(o) ==
    /\ timers[o] > 0
    /\ timers' = [timers EXCEPT ![o] = @ - 1]
    /\ closeConnection(o)
    /\ UNCHANGED <<handlers, wpc, flushBuf, routeOrder>>
    /\ UNCHANGED pipeVars /\ UNCHANGED chanVars /\ NoFault
    /\ UNCHANGED queueVars /\ UNCHANGED call

\* ------------------------------------------------------------ specification
\* The steps of the try block.
Stages(o) ==
    \/ FindOneDone(o)
    \/ SaveRetryDone(o)
    \/ SavePendingDone(o)
    \/ SaveRoutingDone(o)
    \/ QuotesDone(o)
    \/ SaveQuoteDone(o, 1)
    \/ SaveQuoteDone(o, 2)
    \/ SaveSelectedDone(o)
    \/ SaveBuildingDone(o)
    \/ SleepDone(o)
    \/ SaveSubmittedDone(o)
    \/ SwapDone(o)
    \/ SaveConfirmedDone(o)

Pipeline(o) == Stages(o) \/ SaveFailedDone(o)

\* The engine with no client on the status socket: orders are posted,
\* run and retried, their updates go to the buffered log.
Next ==
    \/ \E o \in Submitted : PostExecute(o)
    \/ \E o \in Orders : JobStart(o)
    \/ \E o \in Orders : BackoffTick(o)
    \/ \E o \in Orders : Pipeline(o)
    \/ \E o \in Orders : TimerFires(o)
    \/ RedisReply

Spec == Init /\ [][Next]_vars

\* The engine when orders may be submitted to the queue more than once.
NextQueue == Next \/ \E o \in Orders : Resubmit(o)

SpecQueue == Init /\ [][NextQueue]_vars

\* The engine and its clients when no call fails: an order is posted and
\* runs to CONFIRMED while a client opens the status socket at any moment.
InitDelivery == Start /\ Clients(MaxClients) /\ faulty = {}

NextDelivery ==
    \/ \E o \in Submitted : PostExecute(o)
    \/ \E o \in Orders : JobStart(o)
    \/ \E o \in Orders : Stages(o)
    \/ \E o \in Orders : TimerFires(o)
    \/ RedisReply
    \/ \E s \in Sockets : WsConnect(s)
    \/ \E s \in Sockets : WsFindOneDone(s)
    \/ \E s \in Sockets : ClientClose(s)
    \/ \E s \in Sockets : SocketClosed(s)
    \/ \E s \in Sockets : SocketError(s)

SpecDelivery == InitDelivery /\ [][NextDelivery]_vars

\* A caller of wsManager.sendStatusUpdate other than the pipeline publishes
\* the next of at most `max` updates for the order; the n-th carries n.
Publish(o, max) ==
    LET n == Len(published[o])
    IN  /\ db[o] # NoRow
        /\ n < max
        /\ sendStatusUpdate(o, [Update(o, "ROUTING", "update") EXCEPT
                                   !.retryCount = Some(n + 1)], 0)
        /\ UNCHANGED pipeVars /\ UNCHANGED queueVars /\ UNCHANGED call
        /\ UNCHANGED sockVars /\ UNCHANGED timers

\* WebSocketManager on its own: updates are published by any caller while
\* clients attach and leave; socket writes may throw.
InitChannel == Start /\ Clients(MaxClients) /\ faulty = {"send"}

NextChannel ==
    \/ \E o \in Submitted : PostExecute(o)
    \/ \E o \in Orders : Publish(o, MaxPublished)
    \/ RedisReply
    \/ \E s \in Sockets : WsConnect(s)
    \/ \E s \in Sockets : WsFindOneDone(s)
    \/ \E s \in Sockets : ClientClose(s)
    \/ \E s \in Sockets : SocketClosed(s)
    \/ \E s \in Sockets : SocketError(s)

SpecChannel == InitChannel /\ [][NextChannel]_vars

\* WebSocketManager for an order no client ever attaches to: every update
\* published goes to the buffered log, more of them than the log retains.
InitBuffer == Start /\ Clients(0) /\ faulty = {}

NextBuffer ==
    \/ \E o \in Submitted : PostExecute(o)
    \/ \E o \in Orders : Publish(o, MaxBufferedUpdates + MaxOverflow)
    \/ RedisReply

SpecBuffer == InitBuffer /\ [][NextBuffer]_vars

\* The engine and its clients when socket writes may throw.
InitSend == Start /\ Clients(MaxClients) /\ faulty = {"send"}

SpecSend == InitSend /\ [][NextDelivery]_vars

\* The engine and clients that stay connected, while every repository call
\* succeeds and either socket writes may throw or Redis commands may reject.
InitAbsorb == Start /\ Clients(MaxClients) /\ faulty \in {{"send"}, {"redis"}}

NextAbsorb ==
    \/ \E o \in Submitted : PostExecute(o)
    \/ \E o \in Orders : JobStart(o)
    \/ \E o \in Orders : Stages(o)
    \/ \E o \in Orders : TimerFires(o)
    \/ RedisReply
    \/ \E s \in Sockets : WsConnect(s)
    \/ \E s \in Sockets : WsFindOneDone(s)

SpecAbsorb == InitAbsorb /\ [][NextAbsorb]_vars

\* A second passes.  A key whose timeout reaches zero is deleted by Redis.
Tick(o) ==
    /\ ttl[o] > 0
    /\ ttl' = [ttl EXCEPT ![o] = @ - 1]
    /\ buffer' = [buffer EXCEPT ![o] = IF ttl[o] = 1 THEN <<>> ELSE @]
    /\ UNCHANGED <<sent, pending, published>>
    /\ UNCHANGED pipeVars /\ UNCHANGED sockVars /\ UNCHANGED timers
    /\ UNCHANGED queueVars /\ UNCHANGED call
    /\ NoFault

\* WebSocketManager for an order no client attaches to, while time passes.
NextExpiry ==
    \/ \E o \in Submitted : PostExecute(o)
    \/ \E o \in Orders : Publish(o, MaxPublished)
    \/ RedisReply
    \/ \E o \in Orders : Tick(o)

SpecExpiry == InitBuffer /\ [][NextExpiry]_vars

\* WebSocketManager with every socket there is connecting for the same
\* order while updates are published.
InitRegistry == Start /\ Clients(MaxSockets) /\ faulty = {}

SpecRegistry == InitRegistry /\ [][NextChannel]_vars

\* The engine when every socket there is connects for the same order and
\* stays connected, and no call fails.
SpecRelease == InitRegistry /\ [][NextAbsorb]_vars

\* sendStatusUpdate run by a second process instance, whose own registry has
\* no subscriber for the order: the update goes to the log in the Redis
\* store both instances use.
PublishElsewhere(o, max) ==
    LET n == Len(published[o])
        u == [Update(o, "ROUTING", "update") EXCEPT !.retryCount = Some(n + 1)]
    IN  /\ db[o] # NoRow
        /\ n < max
        /\ published' = [published EXCEPT ![o] =
                            Append(@, [attempt |-> 0, update |-> u])]
        /\ bufferUpdate(o, u)
        /\ UNCHANGED <<sent, ttl>>
        /\ NoFault
        /\ UNCHANGED pipeVars /\ UNCHANGED queueVars /\ UNCHANGED call
        /\ UNCHANGED sockVars /\ UNCHANGED timers

\* Two instances on one Redis store: updates are published on the other
\* instance while clients attach, leave and attach again on this one.
NextShared ==
    \/ \E o \in Submitted : PostExecute(o)
    \/ \E o \in Orders : PublishElsewhere(o, MaxPublished)
    \/ RedisReply
    \/ \E s \in Sockets : WsConnect(s)
    \/ \E s \in Sockets : WsFindOneDone(s)
    \/ \E s \in Sockets : ClientClose(s)
    \/ \E s \in Sockets : SocketClosed(s)
    \/ \E s \in Sockets : SocketError(s)

SpecShared == InitRegistry /\ [][NextShared]_vars

\* WebSocketManager with two orders at a time, each with its own client.
InitOrders ==
    /\ Start
    /\ wpc = [s \in Sockets |->
                IF s = 1 \/ OrderOf(s) # OrderOf(1) THEN "unborn" ELSE "absent"]
    /\ faulty = {}

NextOrders ==
    \/ \E o \in Orders : PostExecute(o)
    \/ \E o \in Orders : Publish(o, MaxPublished)
    \/ RedisReply
    \/ \E s \in Sockets : WsConnect(s)
    \/ \E s \in Sockets : WsFindOneDone(s)
    \/ \E s \in Sockets : ClientClose(s)
    \/ \E s \in Sockets : SocketClosed(s)
    \/ \E s \in Sockets : SocketError(s)

SpecOrders == InitOrders /\ [][NextOrders]_vars

\* The engine with two orders at a time, each with a client that opens the
\* order's status socket and stays connected; no call fails.  The worker
\* runs the first order while the job of the second waits in the queue.
NextClose ==
    \/ \E o \in Orders : PostExecute(o)
    \/ \E o \in Submitted : JobStart(o)
    \/ \E o \in Orders : Stages(o)
    \/ \E o \in Orders : TimerFires(o)
    \/ RedisReply
    \/ \E s \in Sockets : WsConnect(s)
    \/ \E s \in Sockets : WsFindOneDone(s)

SpecClose == InitOrders /\ [][NextClose]_vars

\* addOrderToQueue called with an id the orders table has no row for.
EnqueueMissing(o) ==
    /\ db[o] = NoRow
    /\ job[o].state = "none"
    /\ addOrderToQueue(o)
    /\ UNCHANGED <<db, dexQuotes, pc, mem, quotes, err, timers>>
    /\ UNCHANGED sockVars /\ UNCHANGED chanVars /\ NoFault
    /\ UNCHANGED call

\* The queue holding jobs whose orders the repository does not contain.
InitMissing == Start /\ Clients(0) /\ faulty = {}

NextMissing ==
    \/ \E o \in Orders : EnqueueMissing(o)
    \/ \E o \in Orders : JobStart(o)
    \/ \E o \in Orders : BackoffTick(o)
    \/ \E o \in Orders : FindOneDone(o)

SpecMissing == InitMissing /\ [][NextMissing]_vars

\* A venue never answers: the promise of getAllQuotes stays pending, and the
\* run stays at its await for good.
QuoteHangs(o) ==
    /\ pc[o] = "quotes"
    /\ Fault("hang")
    /\ pc' = [pc EXCEPT ![o] = "quotesHung"]
    /\ UNCHANGED <<db, dexQuotes, job, mem, quotes, err, timers>>
    /\ UNCHANGED sockVars /\ UNCHANGED chanVars
    /\ UNCHANGED queueVars /\ UNCHANGED call

\* The engine when repository calls may reject and a venue may never
\* answer; every step that can be taken is eventually taken.
InitHang == Start /\ Clients(0) /\ faulty = {"db", "hang"}

NextHang == Next \/ \E o \in Orders : QuoteHangs(o)

SpecHang == InitHang /\ [][NextHang]_vars /\ WF_vars(NextHang)

\* the message of the error a venue's quote call rejects with
QuoteError == "quote failed"

\* Quotes fetched and saved venue by venue: the first venue's row is saved
\* when the second venue's call rejects.
QuoteFails_AfterFirstSaved(o) ==
    /\ pc[o] = "quotes"
    /\ Fault("quote")
    /\ Catch(o, QuoteError)
    /\ \E pr \in RaydiumPrices :
          dexQuotes' = [dexQuotes EXCEPT ![o] =
                           Append(@, Quote("RAYDIUM", pr, RaydiumFee))]
    /\ UNCHANGED <<db, job, quotes, timers>>
    /\ UNCHANGED sockVars /\ UNCHANGED chanVars
    /\ UNCHANGED queueVars /\ UNCHANGED call

\* A venue's quote call rejects: Promise.all rejects, getAllQuotes rejects,
\* and the catch block of processOrder runs.
QuoteFails(o) ==
    /\ pc[o] = "quotes"
    /\ Fault("quote")
    /\ Catch(o, QuoteError)
    /\ UNCHANGED <<db, dexQuotes, job, quotes, timers>>
    /\ UNCHANGED sockVars /\ UNCHANGED chanVars
    /\ UNCHANGED queueVars /\ UNCHANGED call

\* The engine when repository calls and venues' quote calls may reject.
InitQuoteFail == Start /\ Clients(0) /\ faulty = {"db", "quote"}

NextQuoteFail == Next \/ \E o \in Orders : QuoteFails(o)

SpecQuoteFail == InitQuoteFail /\ [][NextQuoteFail]_vars

\* A venue whose execution comes back with a price further below the quote
\* than the slippage allows (here twice the allowed impact): processOrder
\* takes the result of executeSwap as it is.
SlippedPrice(price) == price * PriceScale - price * SlippageBp * 20

SwapSlips(o) ==
    /\ pc[o] = "swap"
    /\ Fault("slip")
    /\ mem' = [mem EXCEPT
          ![o].status = "CONFIRMED",
          ![o].txHash = Some(<<"mock-tx", Attempt(o)>>),
          ![o].executionPrice =
              Some(SlippedPrice(selectBestDex(quotes[o]).price))]
    /\ pc' = [pc EXCEPT ![o] = "saveConfirmed"]
    /\ UNCHANGED <<db, dexQuotes, job, quotes, err, timers>>
    /\ UNCHANGED sockVars /\ UNCHANGED chanVars
    /\ UNCHANGED queueVars /\ UNCHANGED call

\* The engine when repository calls may reject and a venue may execute
\* outside the slippage bound.
InitSlip == Start /\ Clients(0) /\ faulty = {"db", "slip"}

NextSlip == Next \/ \E o \in Orders : SwapSlips(o)

SpecSlip == InitSlip /\ [][NextSlip]_vars

\* ------------------------------------------- MockDexRouter called directly
\* The non-empty lists of at most MaxQuotes quotes; the i-th quote is the
\* i-th venue's, and only its estimatedOutput matters to the selection.
QuoteLists ==
    UNION {{[i \in 1..n |-> [dexName |-> <<"venue", i>>, price |-> 0, fee |-> 0,
                              estimatedOutput |-> f[i]]] :
               f \in [1..n -> 1..MaxOutput]} : n \in 1..MaxQuotes}

\* dexRouter.selectBestDex(quotes), as the unit tests call it.
CallSelectBestDex ==
    /\ call = NoCall
    /\ \E qs \in QuoteLists :
          call' = [fn |-> "selectBestDex", args |-> qs,
                   result |-> Some(selectBestDex(qs))]
    /\ UNCHANGED pipeVars /\ UNCHANGED sockVars /\ UNCHANGED chanVars
    /\ UNCHANGED queueVars /\ UNCHANGED timers /\ NoFault

\* dexRouter.executeSwap(dex, tokenIn, tokenOut, amount, slippage, quote):
\* quote prices in 1/10, slippages of 0, 0.0001, 0.01, 0.5 and 1.
SwapPrices == RaydiumPrices \cup MeteoraPrices \cup {1, 955, 2000}
SwapSlippages == {0, 1, 100, 5000, 10000}

CallExecuteSwap ==
    /\ call = NoCall
    /\ \E p \in SwapPrices, slip \in SwapSlippages, r \in RandDraws :
          call' = [fn |-> "executeSwap",
                   args |-> [price |-> p, slippage |-> slip],
                   result |-> Some(ExecutedPriceAt(p, r, slip))]
    /\ UNCHANGED pipeVars /\ UNCHANGED sockVars /\ UNCHANGED chanVars
    /\ UNCHANGED queueVars /\ UNCHANGED timers /\ NoFault

InitRouter == Start /\ Clients(0) /\ faulty = {}

NextRouter ==
    \/ CallSelectBestDex
    \/ CallExecuteSwap

SpecRouter == InitRouter /\ [][NextRouter]_vars


\* ================================================================== claims
Last(q) == q[Len(q)]
Front(q) == SubSeq(q, 1, Len(q) - 1)
IsPrefix(a, b) == Len(a) <= Len(b) /\ a = SubSeq(b, 1, Len(a))

\* The updates published for an order, in publish order.
Published(o) == [i \in 1..Len(published[o]) |-> published[o][i].update]

\* The status updates among the messages written to a socket (the route's
\* own greeting and its not-found error are not status updates).
IsStatusUpdate(m) == m.message # InitialMessage /\ m.status # "NONE"
StatusUpdates(q) == SelectSeq(q, IsStatusUpdate)

\* The statuses published by attempt k of the order's job.
AttemptStatuses(o, k) ==
    LET OfK(e) == e.attempt = k
        q == SelectSeq(published[o], OfK)
    IN  [i \in 1..Len(q) |-> q[i].update.status]

AttemptEnded(o, k) == k < job[o].attemptsMade
AttemptSucceeded(o, k) ==
    job[o].state = "completed" /\ k = job[o].attemptsMade - 1
AttemptFailed(o, k) == AttemptEnded(o, k) /\ ~AttemptSucceeded(o, k)

\* C1: a subscriber that is attached and still open when the terminal update
\* has been published has received exactly the published updates, in order.
C1_NoLoss ==
    \A s \in Sockets :
        LET o == OrderOf(s)
        IN  ( /\ wpc[s] = "attached"
              /\ readyState[s] = "OPEN"
              /\ connections[o] = s
              /\ published[o] # <<>>
              /\ Terminal(Last(published[o]).update.status) )
            => StatusUpdates(sent[s]) = Published(o)

\* C2: when the flush of an attach deletes the log, every entry appended
\* since the flush read it is written to the subscriber or is still in the
\* log.
C2_AppendDuringFlushKept ==
    [][\A s \in Sockets :
          LET o == OrderOf(s)
          IN  (wpc[s] = "lrange" /\ wpc'[s] # "lrange")
              => \A i \in (Len(flushBuf[s]) + 1)..Len(buffer[o]) :
                    \/ buffer[o][i] \in Range(sent'[s])
                    \/ buffer[o][i] \in Range(buffer'[o])]_vars

\* C3: no update is written live to a subscriber whose flush still holds
\* earlier updates read from the buffered log.
C3_LiveNotAheadOfBuffered ==
    [][\A s \in Sockets :
          LET o == OrderOf(s)
          IN  (published'[o] # published[o] /\ sent'[s] # sent[s])
              => ~(wpc[s] = "lrange" /\ flushBuf[s] # <<>>)]_vars

\* C4 (as claimed): the persisted status only moves one stage forward or to
\* FAILED from a non-terminal status, and after a terminal status nothing is
\* persisted or published, over all attempts.
Forward(a, b) ==
    /\ ~Terminal(a)
    /\ \/ b = "FAILED"
       \/ StatusRank(b) = StatusRank(a) + 1

C4_ForwardAcrossAttempts ==
    [][\A o \in Orders :
          LET a == db[o].status
              b == db'[o].status
          IN  /\ (a # "NONE" /\ a # b) => Forward(a, b)
              /\ (a # "NONE" /\ Terminal(a)) => published'[o] = published[o]]_vars

\* C4 (amended): within an attempt the persisted status moves one stage
\* forward or to FAILED from a non-terminal status; CONFIRMED is final: no
\* later status change and no later update; a retry attempt persists PENDING
\* again over whatever status the previous attempt left, and publishes.
C4_ForwardWithinAttempt ==
    [][\A o \in Orders :
          LET a == db[o].status
              b == db'[o].status
          IN  /\ (a # "NONE" /\ a # b) =>
                    \/ Forward(a, b)
                    \/ /\ b = "PENDING"
                       /\ a # "CONFIRMED"
                       /\ pc[o] = "savePending"
                       /\ Attempt(o) >= 1
              /\ a = "CONFIRMED" =>
                    /\ db'[o] = db[o]
                    /\ published'[o] = published[o]]_vars

C4_Witness ==
    \E o \in Orders :
        /\ db[o].status = "CONFIRMED"
        /\ db[o].errorMessage # None
        /\ job[o].state = "completed"
        /\ job[o].attemptsMade = 3

\* C5: every attempt publishes a prefix of PENDING, ROUTING, ROUTING (with
\* quotes and selection), BUILDING, SUBMITTED, CONFIRMED, a failed attempt
\* followed by exactly one FAILED; a successful attempt publishes all six.
Expected == <<"PENDING", "ROUTING", "ROUTING", "BUILDING", "SUBMITTED", "CONFIRMED">>

C5_AttemptSequence ==
    \A o \in Orders : \A k \in 0..(MaxAttempts - 1) :
        LET st == AttemptStatuses(o, k)
            OfK(e) == e.attempt = k
            q == SelectSeq(published[o], OfK)
        IN  /\ \/ IsPrefix(st, Expected)
               \/ /\ st # <<>>
                  /\ Last(st) = "FAILED"
                  /\ IsPrefix(Front(st), Expected)
            /\ (Len(st) >= 3 /\ st[3] = "ROUTING") =>
                  (q[3].update.quotes # None /\ q[3].update.selectedDex # None)
            /\ AttemptSucceeded(o, k) => st = Expected
            /\ AttemptFailed(o, k) => (st # <<>> /\ Last(st) = "FAILED")

\* C6: once processing is over and nothing is in flight, a client whose
\* attach has finished and who did not go away has been sent a CONFIRMED
\* update with txHash and executionPrice or a FAILED update with error and
\* retry count.
ObservedTerminal(s) ==
    \E i \in 1..Len(sent[s]) :
        LET m == sent[s][i]
        IN  /\ IsStatusUpdate(m)
            /\ \/ m.status = "CONFIRMED" /\ m.txHash # None /\ m.executionPrice # None
               \/ m.status = "FAILED" /\ m.error # None /\ m.retryCount # None

C6_ClientObservesTerminal ==
    \A s \in Sockets :
        LET o == OrderOf(s)
        IN  ( /\ wpc[s] = "attached"
              /\ closedBy[s] \in {"none", "server"}
              /\ job[o].state \in {"completed", "failed"}
              /\ timers[o] = 0
              /\ pending = <<>> )
            => ObservedTerminal(s)

\* C7: a persisted order has an errorMessage exactly when its status is
\* FAILED.
C7_ErrorMessageIffFailed ==
    \A o \in Orders :
        db[o] # NoRow =>
            ((db[o].errorMessage # None) <=> (db[o].status = "FAILED"))

\* C8: a persisted order has txHash and executionPrice exactly when its
\* status is CONFIRMED.
C8_TxHashIffConfirmed ==
    \A o \in Orders :
        db[o] # NoRow =>
            /\ (db[o].txHash # None) <=> (db[o].status = "CONFIRMED")
            /\ (db[o].executionPrice # None) <=> (db[o].status = "CONFIRMED")

\* C9: a job is run for attempts 0, 1 and 2 and no more; one whose every
\* attempt failed leaves the order FAILED with the last attempt's error
\* message and retryCount 2.
C9_RetryExhaustion ==
    \A o \in Orders :
        /\ job[o].attemptsMade <= MaxAttempts
        /\ (job[o].state \in {"waiting", "delayed", "active"}) =>
                job[o].attemptsMade < MaxAttempts
        /\ job[o].state = "failed"
           => /\ job[o].attemptsMade = 3
              /\ db[o].status = "FAILED"
              /\ db[o].errorMessage = Some(job[o].failedReason)
              /\ db[o].retryCount = 2

\* C10: an attempt that caught an error persists FAILED with the error's
\* message, publishes one FAILED update with that message and the attempt
\* number, and hands the same error to the worker.
C10_FailurePersistedPublishedRaised ==
    [][\A o \in Orders :
          (pc[o] = "saveFailed" /\ pc'[o] # "saveFailed") =>
              /\ db'[o].status = "FAILED"
              /\ db'[o].errorMessage = Some(err[o])
              /\ published'[o] = Append(published[o],
                    [attempt |-> Attempt(o),
                     update |-> [Update(o, "FAILED", "Order execution failed") EXCEPT
                                    !.error = Some(err[o]),
                                    !.retryCount = Some(Attempt(o))]])
              /\ job'[o].failedReason = err[o]]_vars

\* C11: the queue creates at most one job under an order's id, and a call
\* of addOrderToQueue for an id that has a job changes neither the job
\* nor the pipeline run: no second job, no additional run.
C11_OneJobPerOrder ==
    [][\A o \in Orders :
          /\ jobsAdded'[o] <= 1
          /\ (resubmitted'[o] /\ ~resubmitted[o]) =>
                /\ job'[o] = job[o]
                /\ jobsAdded'[o] = jobsAdded[o]
                /\ pc'[o] = pc[o]]_vars

C11_Witness ==
    \E o \in Orders :
        /\ resubmitted[o]
        /\ jobsAdded[o] = 1
        /\ job[o].state = "completed"
        /\ job[o].attemptsMade = 2

C13_LogWithinCap ==
    \A o \in Orders :
        connections[o] = NoSocket => Len(buffer[o]) <= MaxBufferedUpdates

\* C14: the log is always a tail of the published updates, in publish order,
\* and once no bufferUpdate is in flight it is the MAX_BUFFERED_UPDATES most
\* recent ones (all of them while there are no more than that).
Suffix(q, n) == SubSeq(q, Len(q) - n + 1, Len(q))

C14_RetainsMostRecent ==
    \A o \in Orders :
        LET all == Published(o)
            kept == IF Len(all) > MaxBufferedUpdates
                    THEN MaxBufferedUpdates ELSE Len(all)
        IN  /\ Len(buffer[o]) <= Len(all)
            /\ buffer[o] = Suffix(all, Len(buffer[o]))
            /\ Buffering = {} => buffer[o] = Suffix(all, kept)

C14_Witness ==
    \E o \in Orders :
        /\ Len(published[o]) = MaxBufferedUpdates + 2
        /\ Buffering = {}
        /\ Len(buffer[o]) = MaxBufferedUpdates
        /\ buffer[o][1].retryCount = Some(3)

\* C15: every buffered publish resets the expiration of the order's log to
\* UPDATE_BUFFER_TTL seconds, and a log nothing is being appended to has an
\* expiration running, at whose end it is empty.
RpushAnswered(o) ==
    /\ pending # <<>>
    /\ Head(pending).op = "rpush"
    /\ Head(pending).order = o
    /\ pending' = Append(Tail(pending),
                         [op |-> "expire", order |-> o, sock |-> NoSocket])

C15_PublishResetsExpiry ==
    [][\A o \in Orders :
          /\ RpushAnswered(o) => ttl'[o] = UpdateBufferTtl
          /\ (Buffering = {} /\ buffer[o] # <<>>) => ttl[o] > 0
          /\ (ttl[o] = 1 /\ ttl'[o] = 0) => buffer'[o] = <<>>]_vars

\* C16: a call of sendStatusUpdate either writes the update to the open
\* socket registered for the order or appends it to the order's log: it is
\* appended when no subscriber is registered, when the registered socket is
\* not open, and when the write to the open socket throws.
C16_BufferedUnlessDelivered ==
    [][\A o \in Orders :
          published'[o] # published[o] =>
             LET u == Last(published'[o]).update
                 c == connections[o]
                 open == c # NoSocket /\ readyState[c] = "OPEN"
                 buffered == /\ buffer'[o] = Append(buffer[o], u)
                             /\ sent' = sent
                 delivered == /\ sent' = [sent EXCEPT ![c] = Append(@, u)]
                              /\ buffer' = buffer
             IN  /\ ~open => buffered
                 /\ open => (delivered \/ buffered)]_vars

\* A subscriber is attached and open, and the update just published is in
\* the log with its rpush outstanding: the write threw.
C16_Witness ==
    \E s \in Sockets :
        LET o == OrderOf(s)
        IN  /\ connections[o] = s
            /\ wpc[s] = "attached"
            /\ readyState[s] = "OPEN"
            /\ pending = <<[op |-> "rpush", order |-> o, sock |-> NoSocket]>>
            /\ published[o] # <<>>
            /\ buffer[o] = <<Last(published[o]).update>>
            /\ Len(sent[s]) = 1

\* C17: when socket writes throw and Redis commands reject, but no repository
\* call does, no attempt of processOrder enters its catch block or fails its
\* job, the persisted row never carries FAILED, an errorMessage or a retry,
\* a step that is not processOrder's leaves the row as it is, and a step of
\* processOrder that changes the row writes the entity it was saving.
C17_PublishFailureAbsorbed ==
    [][\A o \in Orders :
          /\ pc'[o] # "saveFailed"
          /\ err'[o] = err[o]
          /\ job'[o].state # "failed"
          /\ job'[o].attemptsMade > 0 =>
                (job'[o].attemptsMade = 1 /\ job'[o].state = "completed")
          /\ db'[o] # NoRow =>
                /\ db'[o].status # "FAILED"
                /\ db'[o].errorMessage = None
                /\ db'[o].retryCount = 0
                /\ db'[o].txHash # None => db'[o].status = "CONFIRMED"
          /\ (db[o] # NoRow /\ db'[o] # db[o]) =>
                (pc'[o] # pc[o] /\ db'[o] = mem[o])]_vars

\* The order is CONFIRMED and its job completed although no client ever
\* connected and the log holds none of the six updates published: every
\* rpush rejected.
C17_Witness ==
    \E o \in Orders :
        /\ job[o].state = "completed"
        /\ db[o].status = "CONFIRMED"
        /\ db[o].txHash # None
        /\ \A s \in Sockets : wpc[s] \in {"unborn", "absent"}
        /\ Len(published[o]) = 6
        /\ buffer[o] = <<>>
        /\ pending = <<>>

\* C18: a socket that was registered for an order and has been replaced in
\* the registry by a newer one is closed.
WasRegistered(s) == wpc[s] \in {"lrange", "del", "attached"}

C18_ReplacedIsClosed ==
    \A s \in Sockets :
        (WasRegistered(s) /\ connections[OrderOf(s)] \notin {s, NoSocket})
            => readyState[s] # "OPEN"

\* C19: a registered socket that stays open stays registered, whatever
\* happens to the sockets it replaced, until a newer one replaces it.
C19_NewerStaysRegistered ==
    [][\A o \in Orders :
          LET c == connections[o]
          IN  (c # NoSocket /\ readyState[c] = "OPEN" /\ readyState'[c] = "OPEN")
                 => connections'[o] # NoSocket]_vars

\* C20: an update published for an order is written to every socket that is
\* attached to the order and open.
C20_EveryClientReceives ==
    [][\A s \in Sockets :
          LET o == OrderOf(s)
          IN  ( /\ published'[o] # published[o]
                /\ wpc[s] = "attached"
                /\ readyState[s] = "OPEN" )
                 => sent'[s] = Append(sent[s], Last(published'[o]).update)]_vars

\* C21: with the updates published on another instance, every socket is
\* written the published updates in publish order and none twice, and a
\* flush that writes to an open socket and deletes the log leaves no entry
\* of the log unwritten.
InPublishOrder(q, all) ==
    /\ \A i \in 1..Len(q) : q[i] \in Range(all)
    /\ \A i, j \in 1..Len(q) :
          i < j => (CHOOSE m \in 1..Len(all) : all[m] = q[i])
                      < (CHOOSE m \in 1..Len(all) : all[m] = q[j])

C21_SharedStoreDelivery ==
    [][\A s \in Sockets :
          LET o == OrderOf(s)
              all == [i \in 1..Len(published'[o]) |-> published'[o][i].update]
          IN  /\ InPublishOrder(StatusUpdates(sent'[s]), all)
              /\ ( /\ wpc[s] = "lrange" /\ wpc'[s] # "lrange"
                   /\ readyState[s] = "OPEN" )
                 => \A i \in 1..Len(buffer[o]) :
                       \/ buffer[o][i] \in Range(sent'[s])
                       \/ buffer[o][i] \in Range(buffer'[o])]_vars

\* C22: what is written to a socket are updates of the order it asked for,
\* and what is in an order's log are updates of that order; both are in the
\* order's publish order.
OwnOrderOnly ==
    /\ \A s \in Sockets :
          \A m \in Range(sent[s]) : m.orderId = OrderOf(s)
    /\ \A o \in Orders :
          \A m \in Range(buffer[o]) : m.orderId = o

C22_OrdersIndependent ==
    /\ OwnOrderOnly
    /\ \A s \in Sockets :
          InPublishOrder(StatusUpdates(sent[s]), Published(OrderOf(s)))
    /\ \A o \in Orders : InPublishOrder(buffer[o], Published(o))

\* C23: a run whose quote request is never answered does not wait for
\* ever: the order becomes FAILED.
C23_QuoteWaitBounded ==
    \A o \in Orders : (pc[o] = "quotesHung") ~> (db[o].status = "FAILED")

\* C24: from the moment a venue's quote call rejects to the end of that
\* attempt no quote row is persisted, the persisted selection does not
\* change, and no update of the attempt carries quotes or a selected venue;
\* the run goes to its catch block and the attempt ends as a failed one.
C24_QuoteFailureFailsAttempt ==
    [][\A o \in Orders :
          LET k == Attempt(o)
          IN  /\ (err[o] # QuoteError /\ err'[o] = QuoteError)
                    => pc'[o] = "saveFailed"
              /\ (err[o] = QuoteError \/ err'[o] = QuoteError) =>
                    /\ dexQuotes'[o] = dexQuotes[o]
                    /\ db'[o].selectedDex = db[o].selectedDex
                    /\ \A i \in 1..Len(published'[o]) :
                          published'[o][i].attempt = k =>
                             /\ published'[o][i].update.quotes = None
                             /\ published'[o][i].update.selectedDex = None
              /\ (err[o] = QuoteError /\ err'[o] # QuoteError) =>
                    /\ job'[o].attemptsMade = k + 1
                    /\ job'[o].state \in {"delayed", "failed"}]_vars

\* The first attempt ended on a rejected quote call: the order is FAILED,
\* without quote rows or selection, and its FAILED update is published.
C24_Witness ==
    \E o \in Orders :
        /\ job[o].attemptsMade = 1
        /\ job[o].failedReason = QuoteError
        /\ db[o] # NoRow
        /\ db[o].status = "FAILED"
        /\ db[o].errorMessage = Some(QuoteError)
        /\ db[o].selectedDex = None
        /\ dexQuotes[o] = <<>>
        /\ published[o] # <<>>
        /\ Last(published[o]).update.status = "FAILED"

\* C25: an order is CONFIRMED only with an execution price within
\* [quotedPrice*(1-slippage), quotedPrice] of the selected venue's quote.
WithinSlippage(x, price) ==
    /\ price * PriceScale - price * SlippageBp * 10 <= x
    /\ x <= price * PriceScale

QuotedPrice(o) ==
    LET rows == dexQuotes[o]
        i == CHOOSE j \in {Len(rows) - 1, Len(rows)} :
                 Some(rows[j].dexName) = db[o].selectedDex
    IN  rows[i].price

C25_OutOfSlippageNotConfirmed ==
    \A o \in Orders :
        (db[o] # NoRow /\ db[o].status = "CONFIRMED") =>
            \E x \in db[o].executionPrice : WithinSlippage(x, QuotedPrice(o))

\* C26: selectBestDex returns a quote of the list whose estimatedOutput is
\* the list's maximum, and the first such quote of the list.
C26_SelectsFirstMaximum ==
    call.fn = "selectBestDex" =>
        LET qs == call.args
        IN  \E best \in call.result :
              \E i \in 1..Len(qs) :
                  /\ best = qs[i]
                  /\ \A j \in 1..Len(qs) :
                        qs[j].estimatedOutput <= best.estimatedOutput
                  /\ \A j \in 1..(i - 1) :
                        qs[j].estimatedOutput < best.estimatedOutput

\* The second of three quotes is returned: it ties with the third and
\* beats the first.
C26_Witness ==
    /\ call.fn = "selectBestDex"
    /\ Len(call.args) = 3
    /\ call.args[1].estimatedOutput < call.args[2].estimatedOutput
    /\ call.args[2].estimatedOutput = call.args[3].estimatedOutput
    /\ call.result = Some(call.args[2])

\* C27: the price executeSwap returns is at most the quoted price and at
\* least the quoted price less the slippage.
C27_ExecutedPriceWithinSlippage ==
    call.fn = "executeSwap" =>
        LET p == call.args.price
            slip == call.args.slippage
        IN  \A x \in call.result :
              /\ p * PriceScale - p * slip * 10 <= x
              /\ x <= p * PriceScale

\* A slippage of 1 with the largest price impact: 20% of the quoted price
\* is left.
C27_Witness ==
    /\ call.fn = "executeSwap"
    /\ call.args.slippage = 10000
    /\ call.args.price = 955
    /\ call.result = Some((955 * PriceScale) \div 5)

\* C28: among the updates published for an order, quotes and selectedDex
\* appear only on the routing-result update, txHash and executionPrice only
\* on the CONFIRMED update, error and retryCount only on the FAILED update.
IsRoutingResult(u) == u.status = "ROUTING" /\ u.message = "DEX routing completed"

C28_FieldsByStage ==
    \A o \in Orders : \A i \in 1..Len(published[o]) :
        LET u == published[o][i].update
        IN  /\ (u.quotes # None \/ u.selectedDex # None) => IsRoutingResult(u)
            /\ (u.txHash # None \/ u.executionPrice # None) => u.status = "CONFIRMED"
            /\ (u.error # None \/ u.retryCount # None) => u.status = "FAILED"

\* C28 as amended: selectedDex appears on the routing-result update and on
\* the CONFIRMED update; quotes only on the routing-result update, txHash
\* and executionPrice only on the CONFIRMED update, error and retryCount
\* only on the FAILED update.
C28_FieldsByStageWithDexOnConfirmed ==
    \A o \in Orders : \A i \in 1..Len(published[o]) :
        LET u == published[o][i].update
        IN  /\ u.quotes # None => IsRoutingResult(u)
            /\ u.selectedDex # None =>
                  (IsRoutingResult(u) \/ u.status = "CONFIRMED")
            /\ (u.txHash # None \/ u.executionPrice # None) => u.status = "CONFIRMED"
            /\ (u.error # None \/ u.retryCount # None) => u.status = "FAILED"

C28_Witness ==
    \E o \in Orders :
        /\ \E i \in 1..Len(published[o]) :
              LET u == published[o][i].update
              IN  u.status = "FAILED" /\ u.error # None /\ u.retryCount # None
        /\ \E i \in 1..Len(published[o]) :
              LET u == published[o][i].update
              IN  IsRoutingResult(u) /\ u.quotes # None /\ u.selectedDex # None
        /\ \E i \in 1..Len(published[o]) :
              LET u == published[o][i].update
              IN  /\ u.status = "CONFIRMED"
                  /\ u.txHash # None /\ u.executionPrice # None
                  /\ u.selectedDex # None

\* C29: for every order, across all attempts of its job, at most one quote
\* row is persisted per venue, and a persisted quote row is never modified
\* afterwards.
OneRowPerVenue(rows) ==
    \A i, j \in 1..Len(rows) : rows[i].dexName = rows[j].dexName => i = j

C29_QuoteRowsOncePerVenue ==
    [][\A o \in Orders :
          /\ IsPrefix(dexQuotes[o], dexQuotes'[o])
          /\ OneRowPerVenue(dexQuotes'[o])]_vars

\* C31: a failed attempt k (0-based, k < 2) of a job is followed by the
\* next attempt no sooner than 2 seconds after the failure for k = 0 and
\* 4 seconds for k = 1.
C31_BackoffBeforeRetry ==
    [][\A o \in Orders :
          (job[o].state = "delayed" /\ job'[o].state = "active") =>
              LET k == job[o].attemptsMade - 1
                  ms == job[o].waited * BackoffDelay
              IN  /\ k \in {0, 1}
                  /\ k = 0 => ms >= 2000
                  /\ k = 1 => ms >= 4000]_vars

C31_Witness ==
    \E o \in Orders :
        /\ job[o].state = "active"
        /\ job[o].attemptsMade = 2
        /\ job[o].waited * BackoffDelay = 4000

\* C33: after an attempt publishes its terminal update, the subscriber
\* registered for that order is eventually closed and removed from the
\* registry, and this release never happens before the terminal update has
\* been published.  Stated on the runs that have come to rest: the job is
\* over, every scheduled release has run and no Redis reply is awaited.
AtRest(o) ==
    /\ job[o].state \in {"completed", "failed"}
    /\ pc[o] = "idle"
    /\ timers[o] = 0
    /\ pending = <<>>

\* The socket was written a terminal update after the route's greeting,
\* that is by sendStatusUpdate while it was the registered subscriber.
SentTerminalLive(s) ==
    \E i, j \in 1..Len(sent[s]) :
        /\ i < j
        /\ sent[s][i].message = InitialMessage
        /\ IsStatusUpdate(sent[s][j])
        /\ Terminal(sent[s][j].status)

C33_ReleasedAfterTerminal ==
    /\ \A o \in Orders :
          (\/ timers[o] > 0
           \/ \E s \in Sockets : /\ OrderOf(s) = o
                                  /\ closedBy[s] = "server"
                                  /\ wpc[s] # "rejected")
              => \E i \in 1..Len(published[o]) : Terminal(published[o][i].update.status)
    /\ \A s \in Sockets :
          (AtRest(OrderOf(s)) /\ SentTerminalLive(s)) =>
              /\ readyState[s] # "OPEN"
              /\ connections[OrderOf(s)] # s

\* C34: when a registered subscriber's socket fires its close or error
\* event, the registration for that order id is removed, so the active
\* connection count drops by one and later updates for the order are
\* buffered.
getActiveConnectionsCount == Cardinality({o \in Orders : connections[o] # NoSocket})

CloseOrErrorEvent(s) ==
    \/ readyState[s] # "CLOSED" /\ readyState'[s] = "CLOSED"
    \/ closedBy[s] # "error" /\ closedBy'[s] = "error"

C34_CloseEventUnregisters ==
    [][/\ \A s \in Sockets :
             (CloseOrErrorEvent(s) /\ connections[OrderOf(s)] = s) =>
                 /\ connections'[OrderOf(s)] = NoSocket
                 /\ getActiveConnectionsCount' = getActiveConnectionsCount - 1
       /\ \A o \in Orders :
             (Len(published'[o]) > Len(published[o]) /\ connections[o] = NoSocket) =>
                 buffer'[o] = Append(buffer[o], Last(published'[o]).update)]_vars

\* C35: closeConnection(orderId) closes the registered socket and leaves no
\* registration for that order id; when no registration exists it changes
\* nothing and raises no error; registrations of other order ids are
\* untouched in both cases.
C35_CloseConnectionFrame ==
    [][\A o \in Orders :
          timers'[o] < timers[o] =>
              LET c == connections[o]
              IN  /\ c # NoSocket =>
                        /\ readyState'[c] \in {"CLOSING", "CLOSED"}
                        /\ connections'[o] = NoSocket
                  /\ c = NoSocket =>
                        /\ connections' = connections
                        /\ readyState' = readyState
                  /\ \A p \in Orders \ {o} : connections'[p] = connections[p]
                  /\ \A s \in Sockets \ {c} : readyState'[s] = readyState[s]
                  /\ timers'[o] = timers[o] - 1
                  /\ pc' = pc /\ job' = job]_vars

C35_Witness ==
    \E o \in Orders : \E s, t \in Sockets :
        /\ OrderOf(s) = o /\ OrderOf(t) # o
        /\ closedBy[s] = "server" /\ wpc[s] # "rejected"
        /\ connections[o] = NoSocket
        /\ connections[OrderOf(t)] = t /\ readyState[t] = "OPEN"
        /\ timers[o] = 0

\* C36: whenever an update with status S has been published for an order,
\* the order's status had already been persisted as S by the same attempt
\* before that update was published.
C36_PersistedBeforePublished ==
    [][\A o \in Orders :
          Len(published'[o]) > Len(published[o]) =>
              LET e == Last(published'[o])
              IN  /\ pc[o] # "idle"
                  /\ e.attempt = job[o].attemptsMade
                  /\ mem[o].status = e.update.status
                  /\ db'[o].status = e.update.status]_vars

C36_Witness ==
    \E o \in Orders :
        /\ published[o] # <<>>
        /\ Last(published[o]).attempt = 1
        /\ Last(published[o]).update.status = "CONFIRMED"
        /\ db[o].status = "CONFIRMED"
        /\ \E i \in 1..Len(published[o]) :
              /\ published[o][i].attempt = 0
              /\ published[o][i].update.status = "FAILED"

\* C37: the flush performed on attach deletes an order's buffered log only
\* if every entry it read from the log was sent to the attaching
\* subscriber's socket; if the socket is not open or a send fails during
\* the flush, the unsent entries remain readable in the log.
C37_FlushDeletesOnlyWhatItSent ==
    [][\A s \in Sockets :
          LET o == OrderOf(s)
          IN  (wpc[s] = "lrange" /\ wpc'[s] # "lrange" /\ flushBuf[s] # <<>>) =>
                  \/ StatusUpdates(sent'[s]) = StatusUpdates(sent[s]) \o flushBuf[s]
                  \/ buffer'[o] = buffer[o]]_vars

\* C38: whenever the delayed connection release scheduled by an attempt
\* closes a subscriber's channel, that subscriber has already been sent a
\* terminal (CONFIRMED or FAILED) update of the order; in particular the
\* release never closes a subscriber that attached during the grace delay
\* before its flush completed, nor one watching a later retry attempt that
\* has not yet reached a terminal state.
SentTerminal(s) ==
    \E i \in 1..Len(sent[s]) :
        IsStatusUpdate(sent[s][i]) /\ Terminal(sent[s][i].status)

C38_ReleaseClosesOnlyAfterTerminal ==
    [][\A o \in Orders :
          LET c == connections[o]
          IN  (timers'[o] < timers[o] /\ c # NoSocket /\ readyState[c] = "OPEN")
                  => SentTerminal(c)]_vars

\* C39: once a subscriber's socket has closed, the registry holds no entry
\* for that socket, including when the socket closes while
\* registerConnection is still flushing the buffered log and has not yet
\* installed its close and error handlers.
C39_ClosedSocketNotRegistered ==
    \A s \in Sockets :
        readyState[s] = "CLOSED" => connections[OrderOf(s)] # s

\* C40: when processOrder is called for an order id that the repository
\* does not contain, it raises an error without persisting anything,
\* without publishing any status update and without scheduling a connection
\* release, and the queue still counts the call as a failed attempt.
C40_MissingOrderOnlyFailsAttempt ==
    [][\A o \in Orders :
          (pc[o] = "findOne" /\ pc'[o] # "findOne" /\ db[o] = NoRow) =>
              /\ pc'[o] = "idle"
              /\ db' = db /\ dexQuotes' = dexQuotes
              /\ published' = published /\ buffer' = buffer /\ sent' = sent
              /\ pending' = pending
              /\ timers' = timers
              /\ job'[o].attemptsMade = job[o].attemptsMade + 1
              /\ job'[o].failedReason = NotFoundError
              /\ job'[o].state \in {"delayed", "failed"}]_vars

C40_Witness ==
    \E o \in Orders :
        /\ db[o] = NoRow
        /\ job[o].state = "failed"
        /\ job[o].attemptsMade = MaxAttempts
        /\ job[o].failedReason = NotFoundError
        /\ published[o] = <<>>
        /\ timers[o] = 0

====
